---- MODULE Spec2Model ----
(***************************************************************************)
(* A model of the grid-town traffic simulator of src/town.py: the Town     *)
(* graph (construction, road weights, signal cycle), the A* search, the    *)
(* Vehicle movement rule and the TrafficSimulator driver.                  *)
(*                                                                         *)
(* Representation.  Coordinates are pairs <<x, y>>.  A Python dict whose   *)
(* iteration order is observable (Node.neighbors) is a sequence of         *)
(* <<key, value>> pairs in insertion order.  Road weights and scores are   *)
(* Python floats; the model keeps them in fixed point, as integer          *)
(* multiples of 1/Unit, so the weight 1.0 is Unit.  float("inf") is Inf.   *)
(***************************************************************************)
EXTENDS Integers, Sequences, FiniteSets, TLC

(* ------------------------------ bounds --------------------------------- *)
MaxWidth == 2            \* towns are at most MaxWidth x MaxHeight
MaxHeight == 2
MaxSignalDuration == 2   \* signal_duration is 1..MaxSignalDuration
MaxYellowDuration == 1   \* yellow_duration is 1..MaxYellowDuration
MaxOffsetNodes == 2      \* randomize_signals only in towns of so many nodes
MaxRandomNodes == 4      \* random_roads only in towns of so many nodes
MaxSimNodes == 5         \* the simulation runs in towns of so many nodes
MaxReplanNodes == 4      \* weights change under way in towns of so many nodes
MaxLiveNodes == 4        \* the driver loop runs in towns of so many nodes
MaxGridSide == 3         \* routing on grids is checked up to this width and height
MaxGridNodes == 9        \* ... and up to so many nodes
MaxWeightCalls == 1      \* calls of set_road_weight
MaxVehicles == 1         \* calls of add_vehicle
MaxAddTick == 0          \* add_vehicle is called up to this tick
MaxSteps == 5            \* calls of step
MaxUpdates == 10         \* direct calls of update_signals
MaxIter == 40            \* passes of the a_star loop before it is given up

(* ---------------------- representation of floats ----------------------- *)
Unit == 100
Inf == 1000000

VARIABLES
    pc,                \* "create" | "signals" | "ready" | "raised" | "hung"
    width, height,     \* Town.width, Town.height
    random_roads,      \* constructor argument
    randomize_signals, \* Town.randomize_signals
    loop_i,            \* position of `for a in coords` in _create_random_roads
    nodes,             \* Town.nodes : coordinate -> Node
    green_duration, yellow_duration, red_duration,
    signal_step,       \* Town.signal_step
    vehicles,          \* TrafficSimulator.vehicles
    weight_calls,      \* number of set_road_weight calls made so far
    ticks,             \* number of step() calls made so far
    search,            \* the state in which the last direct call of a_star ended
    last,              \* what the last operation was and what it was given
    hist               \* history: the tick at which each vehicle was registered,
                       \* the <<node, colour>> a caller wrote, and the colours
                       \* stored after each call of update_signals

vars == <<pc, width, height, random_roads, randomize_signals, loop_i, nodes,
          green_duration, yellow_duration, red_duration, signal_step,
          vehicles, weight_calls, ticks, search, last, hist>>

(* ------------------------------ helpers -------------------------------- *)
Abs(n) == IF n < 0 THEN -n ELSE n

Min(a, b) == IF a < b THEN a ELSE b

Range(s) == {s[i] : i \in 1..Len(s)}

\* Python tuple comparison (x1, y1) < (x2, y2)
CoordLess(a, b) == a[1] < b[1] \/ (a[1] = b[1] /\ a[2] < b[2])

\* k in d
DictHas(d, k) == \E i \in 1..Len(d) : d[i][1] = k

\* d[k]
DictGet(d, k) == d[CHOOSE i \in 1..Len(d) : d[i][1] = k][2]

\* d[k] = v : an existing key keeps its place, a new key goes last
DictSet(d, k, v) ==
    IF DictHas(d, k)
    THEN [i \in 1..Len(d) |-> IF d[i][1] = k THEN <<k, v>> ELSE d[i]]
    ELSE Append(d, <<k, v>>)

DictKeys(d) == {d[i][1] : i \in 1..Len(d)}

(* ------------------------------- Town ---------------------------------- *)
\* the keys of Town.nodes, in insertion order: for x ... for y ...
CoordSeq(w, h) == [i \in 1..(w * h) |-> <<(i - 1) \div h, (i - 1) % h>>]

Coords(w, h) == (0..(w - 1)) \X (0..(h - 1))

\* Node(x, y) with the dataclass defaults
NewNode == [neighbors |-> <<>>, signal |-> "green", signal_offset |-> 0]

\* mutant: a fifth direction, the diagonal
DirectionsDiagonal == << <<-1, 0>>, <<1, 0>>, <<0, -1>>, <<0, 1>>, <<1, 1>> >>

Directions == << <<-1, 0>>, <<1, 0>>, <<0, -1>>, <<0, 1>> >>

\* the inner loop of _create_grid for the node at <<x, y>>: its neighbours
\* in the order of the direction list, each with weight 1.0
RECURSIVE GridNeighbors(_, _, _, _, _)
GridNeighbors(x, y, w, h, i) ==
    IF i > Len(Directions) THEN <<>>
    ELSE LET nx == x + Directions[i][1]
             ny == y + Directions[i][2]
             rest == GridNeighbors(x, y, w, h, i + 1)
         IN IF 0 <= nx /\ nx < w /\ 0 <= ny /\ ny < h
            THEN << <<<<nx, ny>>, Unit>> >> \o rest
            ELSE rest

\* Town.nodes after _create_grid
GridNodes(w, h) ==
    [c \in Coords(w, h) |->
        [NewNode EXCEPT !.neighbors = GridNeighbors(c[1], c[2], w, h, 1)]]

\* ((a[0] - b[0]) ** 2 + (a[1] - b[1]) ** 2) ** 0.5, to 1/Unit
Dist(a, b) ==
    LET dx == Abs(a[1] - b[1])
        dy == Abs(a[2] - b[2])
        d2 == (dx * dx + dy * dy) * Unit * Unit
    IN CHOOSE r \in 0..((dx + dy) * Unit) : r * r <= d2 /\ (r + 1) * (r + 1) > d2

\* the outcomes of random.sample(coords, k): k distinct elements, in order
Samples(cs, k) ==
    {s \in [1..k -> cs] : \A i, j \in 1..k : i # j => s[i] # s[j]}

\* the loop `for b in choices` of _create_random_roads for the node a
RECURSIVE ConnectChoices(_, _, _, _)
ConnectChoices(ns, a, choices, i) ==
    IF i > Len(choices) THEN ns
    ELSE LET b == choices[i]
         IN IF a = b THEN ConnectChoices(ns, a, choices, i + 1)
            ELSE LET dist == Dist(a, b)
                     n1 == [ns EXCEPT ![a].neighbors = DictSet(@, b, dist)]
                     n2 == [n1 EXCEPT ![b].neighbors = DictSet(@, a, dist)]
                 IN ConnectChoices(n2, a, choices, i + 1)

\* mutant: <= in place of < in the test for green
_phase_to_color_le(phase, green, yellow) ==
    IF phase <= green THEN "green"
    ELSE IF phase < green + yellow THEN "yellow"
    ELSE "red"

_phase_to_color(phase, green, yellow) ==
    IF phase < green THEN "green"
    ELSE IF phase < green + yellow THEN "yellow"
    ELSE "red"

\* the body of the loops of Town.__init__ and update_signals for one node
SignalAt(step, offset, green, yellow, red) ==
    _phase_to_color((step + offset) % (green + yellow + red), green, yellow)

\* mutant: only the direction a -> b is written
set_road_weight_one_way(ns, a, b, weight) ==
    IF DictHas(ns[a].neighbors, b)
    THEN [ns EXCEPT ![a].neighbors = DictSet(@, b, weight)]
    ELSE ns

\* mutant: the test of line 92 is left out
set_road_weight_unguarded(ns, a, b, weight) ==
    LET n1 == [ns EXCEPT ![a].neighbors = DictSet(@, b, weight)]
    IN [n1 EXCEPT ![b].neighbors = DictSet(@, a, weight)]

\* Town.set_road_weight, on the node table
set_road_weight(ns, a, b, weight) ==
    IF DictHas(ns[a].neighbors, b)
    THEN LET n1 == [ns EXCEPT ![a].neighbors = DictSet(@, b, weight)]
         IN [n1 EXCEPT ![b].neighbors = DictSet(@, a, weight)]
    ELSE ns

\* mutant: the red phase is left out of the cycle length
update_signals_short_cycle(ns, step, green, yellow, red) ==
    [c \in DOMAIN ns |->
        [ns[c] EXCEPT !.signal = _phase_to_color((step + ns[c].signal_offset) % (green + yellow),
                                                 green, yellow)]]

\* Town.update_signals, on the node table, with the incremented step
update_signals(ns, step, green, yellow, red) ==
    [c \in DOMAIN ns |->
        [ns[c] EXCEPT !.signal = SignalAt(step, ns[c].signal_offset, green, yellow, red)]]

\* mutant: the Manhattan distance is counted twice
heuristic_double(a, b) == 2 * (Abs(a[1] - b[1]) + Abs(a[2] - b[2])) * Unit

\* Town.heuristic, in the unit of the weights
heuristic(a, b) == (Abs(a[1] - b[1]) + Abs(a[2] - b[2])) * Unit

(* -------------------------------- A* ----------------------------------- *)
\* Python tuple comparison of two heap entries (f, node)
EntryLess(e1, e2) == e1[1] < e2[1] \/ (e1[1] = e2[1] /\ CoordLess(e1[2], e2[2]))

\* The heap open_set is kept as the sequence of its entries in insertion
\* order.  Its entries are pairwise distinct (line 137), so heappop returns
\* the one entry that is least in tuple order.
\* mutant: among the entries of least f, the one inserted first
HeapMinIndexFifo(h) ==
    CHOOSE i \in 1..Len(h) :
        \A j \in 1..Len(h) : j # i => (h[i][1] < h[j][1] \/ (h[i][1] = h[j][1] /\ i < j))

HeapMinIndex(h) == CHOOSE i \in 1..Len(h) : \A j \in 1..Len(h) : j # i => EntryLess(h[i], h[j])

RemoveAt(h, i) == [j \in 1..(Len(h) - 1) |-> IF j < i THEN h[j] ELSE h[j + 1]]

heappush(h, e) == Append(h, e)

\* _reconstruct_path: the chain current, came_from[current], ... before it
\* is reversed.  A chain longer than the number of keys of came_from walks a
\* cycle, and then the loop of the code never ends: the result is <<>>.
RECURSIVE ChainBack(_, _, _)
ChainBack(came_from, current, path) ==
    IF current \notin DOMAIN came_from THEN path
    ELSE IF Len(path) > Cardinality(DOMAIN came_from) THEN <<>>
    ELSE ChainBack(came_from, came_from[current], Append(path, came_from[current]))

Reverse(s) == [i \in 1..Len(s) |-> s[Len(s) + 1 - i]]

\* mutant: the chain is returned as it was walked, goal first
_reconstruct_path_unreversed(came_from, current) == ChainBack(came_from, current, <<current>>)

_reconstruct_path(came_from, current) == Reverse(ChainBack(came_from, current, <<current>>))

\* the state of a_star before its loop (lines 117-124)
AStarInit(ns, start, goal) ==
    [open_set |-> heappush(<<>>, <<0, start>>),
     came_from |-> [n \in {} |-> n],
     g_score |-> [n \in DOMAIN ns |-> IF n = start THEN 0 ELSE Inf],
     f_score |-> [n \in DOMAIN ns |-> IF n = start THEN heuristic(start, goal) ELSE Inf],
     status |-> "running",  \* "running" | "found" | "none" | "hung"
     path |-> <<>>,
     popped |-> <<>>,       \* the entries popped so far, in order
     heaps |-> <<>>,        \* the open set each of them was popped from
     iter |-> 0]

\* lines 132-138 for one neighbour of current
RelaxOne(s, current, neighbor, weight, goal) ==
    LET tentative_g_score == s.g_score[current] + weight
    IN IF tentative_g_score < s.g_score[neighbor]
       THEN LET f == tentative_g_score + heuristic(neighbor, goal)
            IN [s EXCEPT
                  !.came_from = [k \in DOMAIN s.came_from \cup {neighbor} |->
                                    IF k = neighbor THEN current ELSE s.came_from[k]],
                  !.g_score[neighbor] = tentative_g_score,
                  !.f_score[neighbor] = f,
                  !.open_set = IF <<f, neighbor>> \in Range(@) THEN @
                               ELSE heappush(@, <<f, neighbor>>)]
       ELSE s

\* the loop of line 131 over neighbors.items(), in dict order
RECURSIVE Relax(_, _, _, _, _)
Relax(s, current, items, i, goal) ==
    IF i > Len(items) THEN s
    ELSE Relax(RelaxOne(s, current, items[i][1], items[i][2], goal),
               current, items, i + 1, goal)

\* mutant: the least entry is read but left in the open set
AStarStepPeek(ns, goal, s) ==
    IF s.open_set = <<>> THEN [s EXCEPT !.status = "none"]
    ELSE LET i == HeapMinIndex(s.open_set)
             current == s.open_set[i][2]
             s1 == [s EXCEPT !.popped = Append(@, s.open_set[i]),
                             !.heaps = Append(@, s.open_set),
                             !.iter = @ + 1]
         IN IF current = goal
            THEN LET p == _reconstruct_path(s1.came_from, current)
                 IN IF p = <<>> THEN [s1 EXCEPT !.status = "hung"]
                    ELSE [s1 EXCEPT !.status = "found", !.path = p]
            ELSE Relax(s1, current, ns[current].neighbors, 1, goal)

\* one evaluation of the loop test of line 126 and, when it holds, one pass
\* through the body (lines 127-138)
AStarStep(ns, goal, s) ==
    IF s.open_set = <<>> THEN [s EXCEPT !.status = "none"]
    ELSE LET i == HeapMinIndex(s.open_set)
             current == s.open_set[i][2]
             s1 == [s EXCEPT !.open_set = RemoveAt(@, i),
                             !.popped = Append(@, s.open_set[i]),
                             !.heaps = Append(@, s.open_set),
                             !.iter = @ + 1]
         IN IF current = goal
            THEN LET p == _reconstruct_path(s1.came_from, current)
                 IN IF p = <<>> THEN [s1 EXCEPT !.status = "hung"]
                    ELSE [s1 EXCEPT !.status = "found", !.path = p]
            ELSE Relax(s1, current, ns[current].neighbors, 1, goal)

\* the loop run to its end; a search still running after MaxIter passes is
\* taken never to return
RECURSIVE AStarRun(_, _, _)
AStarRun(ns, goal, s) ==
    IF s.status # "running" THEN s
    ELSE IF s.iter >= MaxIter THEN [s EXCEPT !.status = "hung"]
    ELSE AStarRun(ns, goal, AStarStep(ns, goal, s))

\* Town.a_star: status "found" with the path, "none" for None, "hung" when
\* the call does not return
a_star(ns, start, goal) == AStarRun(ns, goal, AStarInit(ns, start, goal))

(* ----------------------- Vehicle, TrafficSimulator --------------------- *)
\* Vehicle(start=..., goal=...)
NewVehicle(start, goal) == [start |-> start, goal |-> goal, path |-> <<>>, position_index |-> 0]

\* mutant: only red stops the vehicle
move_on_yellow(v, ns) ==
    IF v.position_index < Len(v.path) - 1
    THEN LET next_pos == v.path[v.position_index + 2]
         IN IF ns[next_pos].signal \in {"red"} THEN v
            ELSE [v EXCEPT !.position_index = @ + 1]
    ELSE v

\* mutant: the test of line 164 is left out (the last node stands for the
\* missing next one)
move_past_end(v, ns) ==
    IF v.path = <<>> THEN v
    ELSE LET next_pos == v.path[Min(v.position_index + 2, Len(v.path))]
         IN IF ns[next_pos].signal \in {"red", "yellow"} THEN v
            ELSE [v EXCEPT !.position_index = @ + 1]

\* mutant: the vehicle also waits for the node it stands on to be green
move_both_green(v, ns) ==
    IF v.position_index < Len(v.path) - 1
    THEN LET next_pos == v.path[v.position_index + 2]
             here == v.path[v.position_index + 1]
         IN IF ns[next_pos].signal \in {"red", "yellow"} \/ ns[here].signal # "green" THEN v
            ELSE [v EXCEPT !.position_index = @ + 1]
    ELSE v

\* mutant: a green signal carries the vehicle two nodes on
move_skip(v, ns) ==
    IF v.position_index < Len(v.path) - 1
    THEN LET next_pos == v.path[v.position_index + 2]
         IN IF ns[next_pos].signal \in {"red", "yellow"} THEN v
            ELSE [v EXCEPT !.position_index = @ + 2]
    ELSE v

\* Vehicle.move: the vehicle after the call.  Python indexes from 0, the
\* sequence path from 1, so path[position_index + 1] of the code is
\* path[position_index + 2] here.
move(v, ns) ==
    IF v.position_index < Len(v.path) - 1
    THEN LET next_pos == v.path[v.position_index + 2]
         IN IF ns[next_pos].signal \in {"red", "yellow"} THEN v
            ELSE [v EXCEPT !.position_index = @ + 1]
    ELSE v

\* mutant: > in place of >=
is_complete_gt(vs) == \A i \in 1..Len(vs) : vs[i].position_index > Len(vs[i].path) - 1

\* mutant: equality in place of >=
is_complete_eq(vs) == \A i \in 1..Len(vs) : vs[i].position_index = Len(vs[i].path) - 1

\* TrafficSimulator.is_complete
is_complete(vs) == \A i \in 1..Len(vs) : vs[i].position_index >= Len(vs[i].path) - 1

(* ------------------------------ inputs --------------------------------- *)
\* the weights handed to set_road_weight: -1.0, 0.0, 0.25 and 3.0
Weights == {-Unit, 0, Unit \div 4, 3 * Unit}

PositiveWeights == {w \in Weights : w > 0}

\* the weights handed to set_road_weight on the grids: 0.25, 1.5 and 3.0
GridWeights == {Unit \div 4, (3 * Unit) \div 2, 3 * Unit}

Colors == {"green", "yellow", "red"}

NoOp == [op |-> "none", a |-> <<>>, b |-> <<>>, w |-> 0]

\* no direct call of a_star has been made
NoSearch == [status |-> "idle"]

(* ------------------------------ actions -------------------------------- *)
\* Town.__init__ up to the creation of the nodes (lines 42-44, 60-62 or
\* 75-77), for one choice of the constructor's arguments
InitTown(w, h, rr) ==
    /\ pc = "create"
    /\ width = w
    /\ height = h
    /\ random_roads = rr
    /\ randomize_signals = FALSE
    /\ loop_i = 1
    /\ nodes = [c \in Coords(w, h) |-> NewNode]
    /\ green_duration = 0
    /\ yellow_duration = 0
    /\ red_duration = 0
    /\ signal_step = 0
    /\ vehicles = <<>>
    /\ weight_calls = 0
    /\ ticks = 0
    /\ search = NoSearch
    /\ last = NoOp
    /\ hist = [born |-> <<>>, painted |-> {}, seen |-> <<>>]

\* _create_grid, lines 65-71
CreateGrid ==
    /\ pc = "create"
    /\ ~random_roads
    /\ nodes' = GridNodes(width, height)
    /\ pc' = "signals"
    /\ last' = [NoOp EXCEPT !.op = "_create_grid"]
    /\ UNCHANGED <<hist, search, width, height, random_roads, randomize_signals, loop_i,
                   green_duration, yellow_duration, red_duration, signal_step,
                   vehicles, weight_calls, ticks>>

\* one pass of the loop `for a in coords` of _create_random_roads (lines
\* 80-88): random.randint(2, 4) gives k, random.sample gives choices
CreateRandomRoads ==
    /\ pc = "create"
    /\ random_roads
    /\ \E k \in 2..4 :
         /\ k <= width * height
         /\ \E choices \in Samples(Coords(width, height), k) :
              LET a == CoordSeq(width, height)[loop_i]
              IN /\ nodes' = ConnectChoices(nodes, a, choices, 1)
                 /\ last' = [NoOp EXCEPT !.op = "_create_random_roads", !.a = a]
    /\ loop_i' = loop_i + 1
    /\ pc' = IF loop_i = width * height THEN "signals" ELSE "create"
    /\ UNCHANGED <<hist, search, width, height, random_roads, randomize_signals,
                   green_duration, yellow_duration, red_duration, signal_step,
                   vehicles, weight_calls, ticks>>

\* random.sample raises ValueError when k exceeds the number of nodes: the
\* constructor does not return
SampleRaises ==
    /\ pc = "create"
    /\ random_roads
    /\ \E k \in 2..4 : k > width * height
    /\ pc' = "raised"
    /\ last' = [NoOp EXCEPT !.op = "ValueError"]
    /\ UNCHANGED <<hist, search, width, height, random_roads, randomize_signals, loop_i, nodes,
                   green_duration, yellow_duration, red_duration, signal_step,
                   vehicles, weight_calls, ticks>>

\* Town.__init__, lines 46-57, for the arguments signal_duration,
\* yellow_duration and randomize_signals; offsets is the outcome of the
\* random.randint calls of line 55
InitSignals(signal_duration, yellow, randomize) ==
    /\ pc = "signals"
    /\ green_duration' = signal_duration
    /\ yellow_duration' = yellow
    /\ red_duration' = signal_duration
    /\ randomize_signals' = randomize
    /\ LET cycle == signal_duration + yellow + signal_duration
           step == signal_duration + yellow - 1
       IN /\ signal_step' = step
          /\ \E offsets \in [DOMAIN nodes -> 0..(cycle - 1)] :
               /\ randomize \/ \A c \in DOMAIN nodes : offsets[c] = nodes[c].signal_offset
               /\ nodes' = [c \in DOMAIN nodes |->
                              [nodes[c] EXCEPT
                                 !.signal_offset = offsets[c],
                                 !.signal = SignalAt(step, offsets[c], signal_duration,
                                                     yellow, signal_duration)]]
    /\ pc' = "ready"
    /\ last' = [NoOp EXCEPT !.op = "__init__"]
    /\ UNCHANGED <<hist, search, width, height, random_roads, loop_i, vehicles, weight_calls, ticks>>

\* mutant: every registered vehicle is routed again under the new weights
SetRoadWeightReplan(ws, traced) ==
    /\ pc = "ready"
    /\ weight_calls < MaxWeightCalls
    /\ \E a \in DOMAIN nodes, b \in DOMAIN nodes, w \in ws :
         /\ nodes' = set_road_weight(nodes, a, b, w)
         /\ last' = IF traced THEN [op |-> "set_road_weight", a |-> a, b |-> b, w |-> w]
                     ELSE [NoOp EXCEPT !.op = "set_road_weight"]
    /\ weight_calls' = weight_calls + 1
    /\ vehicles' = [i \in 1..Len(vehicles) |->
                      LET r == a_star(nodes', vehicles[i].start, vehicles[i].goal)
                      IN IF r.status = "found" /\ vehicles[i].position_index = 0
                         THEN [vehicles[i] EXCEPT !.path = r.path]
                         ELSE vehicles[i]]
    /\ UNCHANGED <<hist, search, pc, width, height, random_roads, randomize_signals, loop_i,
                   green_duration, yellow_duration, red_duration, signal_step, ticks>>

\* Town.set_road_weight(a, b, weight), the weight drawn from ws; `last`
\* keeps the arguments when traced
SetRoadWeight(ws, traced) ==
    /\ pc = "ready"
    /\ weight_calls < MaxWeightCalls
    /\ \E a \in DOMAIN nodes, b \in DOMAIN nodes, w \in ws :
         /\ nodes' = set_road_weight(nodes, a, b, w)
         /\ last' = IF traced THEN [op |-> "set_road_weight", a |-> a, b |-> b, w |-> w]
                     ELSE [NoOp EXCEPT !.op = "set_road_weight"]
    /\ weight_calls' = weight_calls + 1
    /\ UNCHANGED <<hist, search, pc, width, height, random_roads, randomize_signals, loop_i,
                   green_duration, yellow_duration, red_duration, signal_step,
                   vehicles, ticks>>

\* TrafficSimulator.add_vehicle(Vehicle(start, goal)), called no later than
\* the tick `latest`; when a_star does not return, neither does add_vehicle
AddVehicle(latest) ==
    /\ pc = "ready"
    /\ Len(vehicles) < MaxVehicles
    /\ ticks <= latest
    /\ \E start \in DOMAIN nodes, goal \in DOMAIN nodes :
         LET r == a_star(nodes, start, goal)
         IN /\ IF r.status = "hung"
               THEN pc' = "hung" /\ vehicles' = vehicles /\ hist' = hist
               ELSE /\ pc' = pc
                    /\ hist' = [hist EXCEPT !.born = Append(@, ticks)]
                    /\ vehicles' = Append(vehicles,
                          [NewVehicle(start, goal) EXCEPT
                              !.path = IF r.status = "found" THEN r.path ELSE <<>>])
            /\ last' = [NoOp EXCEPT !.op = "add_vehicle", !.a = start, !.b = goal]
    /\ UNCHANGED <<search, width, height, random_roads, randomize_signals, loop_i, nodes,
                   green_duration, yellow_duration, red_duration, signal_step,
                   weight_calls, ticks>>

\* a direct call town.a_star(start, goal), as src/tests/test_town.py makes:
\* search keeps the state in which the call ended
CallAStar ==
    /\ pc = "ready"
    /\ search = NoSearch
    /\ \E start \in DOMAIN nodes, goal \in DOMAIN nodes :
         /\ search' = a_star(nodes, start, goal)
         /\ last' = [NoOp EXCEPT !.op = "a_star", !.a = start, !.b = goal]
    /\ UNCHANGED <<hist, pc, width, height, random_roads, randomize_signals, loop_i, nodes,
                   green_duration, yellow_duration, red_duration, signal_step,
                   vehicles, weight_calls, ticks>>

\* the colour stored at every node
StoredColors(ns) == [c \in DOMAIN ns |-> ns[c].signal]

\* a direct call town.update_signals()
UpdateSignals ==
    /\ pc = "ready"
    /\ Len(hist.seen) < MaxUpdates
    /\ signal_step' = signal_step + 1
    /\ nodes' = update_signals(nodes, signal_step', green_duration, yellow_duration,
                               red_duration)
    /\ hist' = [hist EXCEPT !.seen = Append(@, StoredColors(nodes'))]
    /\ last' = [NoOp EXCEPT !.op = "update_signals"]
    /\ UNCHANGED <<search, pc, width, height, random_roads, randomize_signals, loop_i,
                   green_duration, yellow_duration, red_duration, vehicles,
                   weight_calls, ticks>>

\* mutant: the vehicles move before the signals are updated
StepMoveFirst ==
    /\ pc = "ready"
    /\ ticks < MaxSteps
    /\ signal_step' = signal_step + 1
    /\ nodes' = update_signals(nodes, signal_step', green_duration, yellow_duration,
                               red_duration)
    /\ vehicles' = [i \in 1..Len(vehicles) |-> move(vehicles[i], nodes)]
    /\ ticks' = ticks + 1
    /\ hist' = [hist EXCEPT !.seen = Append(@, StoredColors(nodes'))]
    /\ last' = [NoOp EXCEPT !.op = "step"]
    /\ UNCHANGED <<search, pc, width, height, random_roads, randomize_signals, loop_i,
                   green_duration, yellow_duration, red_duration, weight_calls>>

\* TrafficSimulator.step(), called while fewer than `most` calls were made:
\* update_signals, then move on every vehicle
StepUpTo(most) ==
    /\ pc = "ready"
    /\ ticks < most
    /\ signal_step' = signal_step + 1
    /\ nodes' = update_signals(nodes, signal_step', green_duration, yellow_duration,
                               red_duration)
    /\ vehicles' = [i \in 1..Len(vehicles) |-> move(vehicles[i], nodes')]
    /\ ticks' = ticks + 1
    /\ hist' = [hist EXCEPT !.seen = Append(@, StoredColors(nodes'))]
    /\ last' = [NoOp EXCEPT !.op = "step"]
    /\ UNCHANGED <<search, pc, width, height, random_roads, randomize_signals, loop_i,
                   green_duration, yellow_duration, red_duration, weight_calls>>

Step == StepUpTo(MaxSteps)

\* the steps that let a vehicle cross a town of MaxLiveNodes nodes at one
\* full cycle a hop
LiveSteps == (MaxLiveNodes - 1) * (2 * MaxSignalDuration + MaxYellowDuration)

\* one pass of the loop of main: `while ... not simulator.is_complete()`,
\* then simulator.step().  LiveSteps stands for MAX_STEPS: no run reaches it
\* with a vehicle still en route.
DriverStep ==
    /\ ~is_complete(vehicles)
    /\ StepUpTo(LiveSteps)

\* the assignment town.nodes[c].signal = color made by a caller before the
\* first tick, as src/tests/test_town.py does
SetSignal ==
    /\ pc = "ready"
    /\ ticks = 0
    /\ vehicles = <<>>
    /\ hist.painted = {}
    /\ \E c \in DOMAIN nodes, color \in Colors :
         /\ nodes' = [nodes EXCEPT ![c].signal = color]
         /\ hist' = [hist EXCEPT !.painted = @ \cup {<<c, color>>}]
         /\ last' = [NoOp EXCEPT !.op = "set_signal", !.a = c]
    /\ UNCHANGED <<search, pc, width, height, random_roads, randomize_signals, loop_i,
                   green_duration, yellow_duration, red_duration, signal_step,
                   vehicles, weight_calls, ticks>>

(* --------------------------- specifications ---------------------------- *)
\* The simulation on grid towns: construction, signals of every duration
\* (random offsets in the small towns), vehicles and ticks.
Init ==
    \E w \in 1..MaxWidth, h \in 1..MaxHeight :
        /\ w * h <= MaxSimNodes
        /\ InitTown(w, h, FALSE)

Next ==
    \/ CreateGrid
    \/ \E sd \in 1..MaxSignalDuration, yd \in 1..MaxYellowDuration, rnd \in BOOLEAN :
          /\ rnd => width * height <= MaxOffsetNodes
          /\ InitSignals(sd, yd, rnd)
    \/ AddVehicle(MaxAddTick)
    \/ Step

Spec == Init /\ [][Next]_vars

\* The test scenario: one road (a town of height 1) with synchronized
\* signals; a caller may overwrite a stored colour before the first tick,
\* and the vehicles are registered before the first tick.
InitScenario ==
    \E w \in 1..MaxWidth : InitTown(w, 1, FALSE)

NextScenario ==
    \/ CreateGrid
    \/ \E sd \in 1..MaxSignalDuration, yd \in 1..MaxYellowDuration :
          InitSignals(sd, yd, FALSE)
    \/ SetSignal
    \/ AddVehicle(0)
    \/ Step

SpecScenario == InitScenario /\ [][NextScenario]_vars

\* The road network: both construction modes (random roads in the small
\* towns) and set_road_weight with any weight.
InitRoads ==
    \E w \in 1..MaxWidth, h \in 1..MaxHeight, rr \in BOOLEAN :
        /\ rr => w * h <= MaxRandomNodes
        /\ InitTown(w, h, rr)

NextRoads ==
    \/ CreateGrid
    \/ CreateRandomRoads
    \/ SampleRaises
    \/ InitSignals(2, 1, FALSE)
    \/ SetRoadWeight(Weights, TRUE)

SpecRoads == InitRoads /\ [][NextRoads]_vars

\* Routing: both construction modes, positive weights, one call of a_star.
NextSearch ==
    \/ CreateGrid
    \/ CreateRandomRoads
    \/ SampleRaises
    \/ InitSignals(2, 1, FALSE)
    \/ SetRoadWeight(PositiveWeights, FALSE)
    \/ CallAStar

SpecSearch == InitRoads /\ [][NextSearch]_vars

\* The simulation on towns with random roads, the vehicles registered
\* before the first tick as src/run_simulation.py does.
NextRandom ==
    \/ CreateGrid
    \/ CreateRandomRoads
    \/ SampleRaises
    \/ InitSignals(2, 1, FALSE)
    \/ AddVehicle(0)
    \/ Step

SpecRandom == InitRoads /\ [][NextRandom]_vars

\* Routing on grids: towns up to the 3 x 3 grid of src/tests/test_town.py,
\* positive weights, one call of a_star.
InitGrid ==
    \E w \in 1..MaxGridSide, h \in 1..MaxGridSide :
        /\ w * h <= MaxGridNodes
        /\ InitTown(w, h, FALSE)

NextGrid ==
    \/ CreateGrid
    \/ InitSignals(2, 1, FALSE)
    \/ SetRoadWeight(GridWeights, FALSE)
    \/ CallAStar

SpecGrid == InitGrid /\ [][NextGrid]_vars

\* The driver loop: grid towns, signals of every duration (random offsets
\* in the small towns), the vehicles registered before the first tick as
\* src/run_simulation.py does, and step() called for as long as
\* is_complete() is false.
InitLive ==
    \E w \in 1..MaxWidth, h \in 1..MaxHeight :
        /\ w * h <= MaxLiveNodes
        /\ InitTown(w, h, FALSE)

NextLive ==
    \/ CreateGrid
    \/ \E sd \in 1..MaxSignalDuration, yd \in 1..MaxYellowDuration, rnd \in BOOLEAN :
          /\ rnd => width * height <= MaxOffsetNodes
          /\ InitSignals(sd, yd, rnd)
    \/ AddVehicle(0)
    \/ DriverStep

SpecLive == InitLive /\ [][NextLive]_vars /\ WF_vars(DriverStep)

\* The signal cycle alone: grid towns, signals of every duration (random
\* offsets in the small towns), update_signals called again and again.
NextSignals ==
    \/ CreateGrid
    \/ \E sd \in 1..MaxSignalDuration, yd \in 1..MaxYellowDuration, rnd \in BOOLEAN :
          /\ rnd => width * height <= MaxOffsetNodes
          /\ InitSignals(sd, yd, rnd)
    \/ UpdateSignals

SpecSignals == Init /\ [][NextSignals]_vars

\* Weights changed while vehicles are on their way: grid towns, the
\* vehicles registered before the first tick, set_road_weight at any time.
InitReplan ==
    \E w \in 1..MaxWidth, h \in 1..MaxHeight :
        /\ w * h <= MaxReplanNodes
        /\ InitTown(w, h, FALSE)

NextReplan ==
    \/ CreateGrid
    \/ InitSignals(1, 1, FALSE)
    \/ AddVehicle(0)
    \/ SetRoadWeight(PositiveWeights, FALSE)
    \/ Step

SpecReplan == InitReplan /\ [][NextReplan]_vars

(* ------------------------ notions used by the claims ------------------- *)
\* the nodes joined to the nodes of `seen` by a chain of roads
RECURSIVE Reach(_, _)
Reach(ns, seen) ==
    LET more == seen \cup UNION {DictKeys(ns[c].neighbors) : c \in seen}
    IN IF more = seen THEN seen ELSE Reach(ns, more)

Connected(ns, start, goal) == goal \in Reach(ns, {start})

IsEdge(ns, a, b) == DictHas(ns[a].neighbors, b)

Weight(ns, a, b) == DictGet(ns[a].neighbors, b)

AllPositive(ns) ==
    \A c \in DOMAIN ns : \A i \in 1..Len(ns[c].neighbors) : ns[c].neighbors[i][2] > 0

\* every consecutive pair of the path is a road
IsRoute(ns, path) ==
    \A i \in 1..(Len(path) - 1) : IsEdge(ns, path[i], path[i + 1])

RECURSIVE PathCost(_, _, _)
PathCost(ns, path, i) ==
    IF i >= Len(path) THEN 0
    ELSE Weight(ns, path[i], path[i + 1]) + PathCost(ns, path, i + 1)

\* the least cost of a walk from start of at most k more roads (Bellman-Ford);
\* with positive weights and k the number of nodes, the least cost of a
\* simple path
RECURSIVE LeastCost(_, _, _)
LeastCost(ns, d, k) ==
    IF k = 0 THEN d
    ELSE LeastCost(ns,
            [n \in DOMAIN ns |->
                LET via == {d[m] + Weight(ns, m, n) :
                              m \in {x \in DOMAIN ns : IsEdge(ns, x, n) /\ d[x] < Inf}}
                IN IF via = {} THEN d[n]
                   ELSE LET best == CHOOSE v \in via : \A u \in via : v <= u
                        IN Min(d[n], best)],
            k - 1)

MinCost(ns, start, goal) ==
    LeastCost(ns, [n \in DOMAIN ns |-> IF n = start THEN 0 ELSE Inf],
              Cardinality(DOMAIN ns))[goal]

(* ------------------------------- claims -------------------------------- *)
\* C1: with positive weights, for every start and goal joined by a chain of
\* roads a_star returns a non-empty path that begins at start, ends at goal
\* and follows existing roads.
C1_PathIsRoute ==
    (last.op = "a_star" /\ AllPositive(nodes) /\ Connected(nodes, last.a, last.b)) =>
        /\ search.status = "found"
        /\ search.path # <<>>
        /\ search.path[1] = last.a
        /\ search.path[Len(search.path)] = last.b
        /\ IsRoute(nodes, search.path)

\* a route of three roads was found in a town with random roads after a
\* weight was changed
C1_Witness ==
    /\ last.op = "a_star"
    /\ random_roads
    /\ weight_calls = 1
    /\ Connected(nodes, last.a, last.b)
    /\ search.status = "found"
    /\ Len(search.path) = 4

\* C2: the path a_star returns for a connected pair costs the least that any
\* path from start to goal costs, whatever the positive weights.
C2_PathIsCheapest ==
    (last.op = "a_star" /\ AllPositive(nodes) /\ Connected(nodes, last.a, last.b)
       /\ search.status = "found") =>
        PathCost(nodes, search.path, 1) = MinCost(nodes, last.a, last.b)

\* the colour the signal cycle gives a node at a step, written out
ColorAtStep(step, offset) ==
    LET phase == (step + offset) % (green_duration + yellow_duration + red_duration)
    IN IF phase < green_duration THEN "green"
       ELSE IF phase < green_duration + yellow_duration THEN "yellow"
       ELSE "red"

EnRoute(v) == v.position_index < Len(v.path) - 1

Arrived(v) == v.path = <<>> \/ v.position_index = Len(v.path) - 1

\* the node a vehicle en route would enter next
NextNode(v) == v.path[v.position_index + 2]

\* C3: step() updates the signals once, then every vehicle en route advances
\* by one exactly when its next node is green after that update, and stays
\* where it is when that node is red or yellow.
C3_StepMovesOnGreen ==
    [][ticks' = ticks + 1 =>
         /\ signal_step' = signal_step + 1
         /\ \A c \in DOMAIN nodes :
               nodes'[c].signal = ColorAtStep(signal_step + 1, nodes[c].signal_offset)
         /\ Len(vehicles') = Len(vehicles)
         /\ \A i \in 1..Len(vehicles) :
               EnRoute(vehicles[i]) =>
                  vehicles'[i].position_index =
                     IF nodes'[NextNode(vehicles[i])].signal = "green"
                     THEN vehicles[i].position_index + 1
                     ELSE vehicles[i].position_index]_vars

\* a tick moved a vehicle onto a green node while the node it left showed
\* another colour
C3_Witness ==
    /\ last.op = "step"
    /\ randomize_signals
    /\ \E i \in 1..Len(vehicles) :
          /\ vehicles[i].position_index = 1
          /\ nodes[vehicles[i].path[2]].signal = "green"
          /\ nodes[vehicles[i].path[1]].signal = "yellow"

\* C4: with all offsets 0, a vehicle registered before the first tick with a
\* hop to make stays at index 0 through the first red_duration ticks, its
\* next node red after each of them, and is at index 1 after tick
\* red_duration + 1, whatever colour was stored before the first tick.
C4_WaitsThroughRed ==
    (pc = "ready" /\ \A c \in DOMAIN nodes : nodes[c].signal_offset = 0) =>
        \A i \in 1..Len(vehicles) :
            (hist.born[i] = 0 /\ Len(vehicles[i].path) >= 2) =>
                /\ ticks <= red_duration => vehicles[i].position_index = 0
                /\ (1 <= ticks /\ ticks <= red_duration) =>
                       nodes[vehicles[i].path[2]].signal = "red"
                /\ ticks = red_duration + 1 =>
                       /\ vehicles[i].position_index = 1
                       /\ nodes[vehicles[i].path[2]].signal = "green"

\* the 2x1 town with the default durations: the destination was painted
\* green before the first tick, and the vehicle is at index 1 after tick 3
C4_Witness ==
    /\ width = 2 /\ height = 1
    /\ green_duration = 2 /\ yellow_duration = 1 /\ red_duration = 2
    /\ hist.painted = {<< <<1, 0>>, "green" >>}
    /\ ticks = 3
    /\ Len(vehicles) = 1
    /\ hist.born[1] = 0
    /\ vehicles[1].start = <<0, 0>> /\ vehicles[1].goal = <<1, 0>>
    /\ vehicles[1].position_index = 1

\* C5: for a start and goal that no chain of roads joins, a_star returns
\* None, add_vehicle stores the empty path, and the vehicle counts as
\* complete from then on, its position_index staying 0.
C5_UnreachableIsComplete ==
    /\ (last.op = "add_vehicle" /\ ~Connected(nodes, last.a, last.b)) =>
          /\ pc = "ready"
          /\ a_star(nodes, last.a, last.b).status = "none"
    /\ \A i \in 1..Len(vehicles) :
          ~Connected(nodes, vehicles[i].start, vehicles[i].goal) =>
              /\ vehicles[i].path = <<>>
              /\ vehicles[i].position_index = 0
              /\ is_complete(<<vehicles[i]>>)

\* a vehicle routed between two unconnected nodes before the first tick has
\* been through three ticks
C5_Witness ==
    /\ last.op = "step"
    /\ ticks >= 3
    /\ \E i \in 1..Len(vehicles) :
          /\ hist.born[i] = 0
          /\ ~Connected(nodes, vehicles[i].start, vehicles[i].goal)

\* C6: roads are symmetric in every state: B is a neighbour of A exactly
\* when A is one of B, with the same weight, and set_road_weight on an
\* existing road leaves the given weight in both directions.
C6_EdgesSymmetric ==
    /\ \A a \in DOMAIN nodes, b \in DOMAIN nodes :
          /\ IsEdge(nodes, a, b) <=> IsEdge(nodes, b, a)
          /\ IsEdge(nodes, a, b) => Weight(nodes, a, b) = Weight(nodes, b, a)
    /\ (last.op = "set_road_weight" /\ IsEdge(nodes, last.a, last.b)) =>
          /\ Weight(nodes, last.a, last.b) = last.w
          /\ Weight(nodes, last.b, last.a) = last.w

\* a diagonal road of a town with random roads was given a new weight
C6_Witness ==
    /\ last.op = "set_road_weight"
    /\ random_roads
    /\ last.a[1] # last.b[1] /\ last.a[2] # last.b[2]
    /\ IsEdge(nodes, last.a, last.b)
    /\ last.w = 3 * Unit
    /\ Weight(nodes, last.b, last.a) = 3 * Unit

EdgeSet(ns) == {e \in (DOMAIN ns) \X (DOMAIN ns) : IsEdge(ns, e[1], e[2])}

\* C7: set_road_weight(a, b, w) with b no neighbour of a (a = b included)
\* changes nothing of the graph, and the set of roads never changes after
\* construction.
C7_NonEdgeIsNoOp ==
    [][/\ (last'.op = "set_road_weight" /\ weight_calls' = weight_calls + 1
             /\ ~IsEdge(nodes, last'.a, last'.b)) => nodes' = nodes
       /\ pc = "ready" => EdgeSet(nodes') = EdgeSet(nodes)]_vars

\* set_road_weight was called for two distinct nodes that no road joins
C7_Witness ==
    /\ last.op = "set_road_weight"
    /\ last.a # last.b
    /\ last.w > 0
    /\ ~IsEdge(nodes, last.a, last.b)

\* C8: set_road_weight with a weight <= 0 changes no weight, so every weight
\* is strictly positive in every state.
C8_WeightsStayPositive == AllPositive(nodes)

\* C9: step() does not change the position_index of a vehicle that has
\* arrived, and is_complete(), once true, stays true while no vehicle is
\* added.
C9_ArrivedStays ==
    [][/\ \A i \in 1..Len(vehicles) :
             Arrived(vehicles[i]) =>
                vehicles'[i].position_index = vehicles[i].position_index
       /\ (is_complete(vehicles) /\ Len(vehicles') = Len(vehicles)) =>
             is_complete(vehicles')]_vars

\* a vehicle that arrived at tick 2 has been through a later tick that
\* left its goal green
C9_Witness ==
    /\ last.op = "step"
    /\ green_duration = 1 /\ yellow_duration = 1 /\ ~randomize_signals
    /\ ticks = 5
    /\ \E i \in 1..Len(vehicles) :
          /\ hist.born[i] = 0
          /\ Len(vehicles[i].path) = 2
          /\ vehicles[i].position_index = 1
          /\ nodes[vehicles[i].goal].signal = "green"

\* C10: position_index never decreases and grows by at most 1 in a step,
\* and a vehicle with a non-empty path has 0 <= position_index <= len - 1.
C10_IndexBounded ==
    /\ [](\A i \in 1..Len(vehicles) :
             vehicles[i].path # <<>> =>
                /\ 0 <= vehicles[i].position_index
                /\ vehicles[i].position_index <= Len(vehicles[i].path) - 1)
    /\ [][\A i \in 1..Len(vehicles) :
             /\ vehicles'[i].position_index >= vehicles[i].position_index
             /\ vehicles'[i].position_index <= vehicles[i].position_index + 1]_vars

\* a vehicle reached the end of a path of three nodes
C10_Witness ==
    /\ last.op = "step"
    /\ \E i \in 1..Len(vehicles) :
          /\ Len(vehicles[i].path) = 3
          /\ vehicles[i].position_index = 2

\* C11: is_complete() is true exactly when every registered vehicle is at
\* the last index of its path, a vehicle with an empty path counting as
\* arrived; no vehicle is ever beyond the last index of a non-empty path.
C11_CompleteIffAllArrived ==
    /\ is_complete(vehicles) <=> \A i \in 1..Len(vehicles) : Arrived(vehicles[i])
    /\ \A i \in 1..Len(vehicles) :
          (vehicles[i].position_index >= Len(vehicles[i].path) - 1) <=> Arrived(vehicles[i])

\* in a town with random roads a vehicle has come to the end of a path of
\* three nodes, and is_complete() is true
C11_Witness ==
    /\ random_roads
    /\ last.op = "step"
    /\ Len(vehicles) = 1
    /\ Len(vehicles[1].path) = 3
    /\ vehicles[1].position_index = 2
    /\ is_complete(vehicles)

\* C12: the path of a registered vehicle, with its start and goal, is never
\* changed: not by step(), not by set_road_weight, whatever route the new
\* weights make cheaper; vehicles are only ever appended.
C12_PathNeverReplanned ==
    [][/\ Len(vehicles') >= Len(vehicles)
       /\ \A i \in 1..Len(vehicles) :
             /\ vehicles'[i].path = vehicles[i].path
             /\ vehicles'[i].start = vehicles[i].start
             /\ vehicles'[i].goal = vehicles[i].goal]_vars

\* after a weight was changed and a tick made, a vehicle still at its start
\* holds a path that costs more than the cheapest one, and a_star called
\* now for its start and goal would return another path
C12_Witness ==
    /\ last.op = "step"
    /\ weight_calls = 1
    /\ AllPositive(nodes)
    /\ \E i \in 1..Len(vehicles) :
          /\ vehicles[i].path # <<>>
          /\ vehicles[i].position_index = 0
          /\ PathCost(nodes, vehicles[i].path, 1)
                > MinCost(nodes, vehicles[i].start, vehicles[i].goal)
          /\ a_star(nodes, vehicles[i].start, vehicles[i].goal).path # vehicles[i].path

\* C13: the stored colours repeat with the period green + yellow + red: the
\* colours stored after the k-th call of update_signals are those stored
\* after the call number k + cycle, for every node and every k >= 1.
C13_ColourPeriodic ==
    LET cycle == green_duration + yellow_duration + red_duration
    IN pc = "ready" =>
          /\ \A k \in 1..Len(hist.seen) :
                k + cycle <= Len(hist.seen) => hist.seen[k] = hist.seen[k + cycle]
          /\ Len(hist.seen) >= 1 => hist.seen[Len(hist.seen)] = StoredColors(nodes)

\* two nodes with different random offsets have been through two cycles of
\* five updates and show different colours
C13_Witness ==
    /\ randomize_signals
    /\ green_duration = 2 /\ yellow_duration = 1 /\ red_duration = 2
    /\ Len(hist.seen) = 10
    /\ \E a \in DOMAIN nodes, b \in DOMAIN nodes :
          /\ nodes[a].signal_offset # nodes[b].signal_offset
          /\ nodes[a].signal = "green"
          /\ nodes[b].signal = "red"
          /\ hist.seen[6][a] = "yellow"

Manhattan(a, b) == Abs(a[1] - b[1]) + Abs(a[2] - b[2])

\* C14: on a grid whose weights are all still 1.0, a_star returns for any
\* start and goal a path of Manhattan distance + 1 nodes from start to goal,
\* every hop between 4-directionally adjacent cells, of total weight the
\* Manhattan distance.
C14_GridPathIsManhattan ==
    (last.op = "a_star" /\ ~random_roads /\ weight_calls = 0) =>
        /\ search.status = "found"
        /\ Len(search.path) = Manhattan(last.a, last.b) + 1
        /\ search.path[1] = last.a
        /\ search.path[Len(search.path)] = last.b
        /\ \A i \in 1..(Len(search.path) - 1) :
              Manhattan(search.path[i], search.path[i + 1]) = 1
        /\ PathCost(nodes, search.path, 1) = Manhattan(last.a, last.b) * Unit

\* the 3 x 3 grid of the test: from (0, 0) to (2, 2) a path of 5 nodes and
\* weight 4.0
C14_Witness ==
    /\ width = 3 /\ height = 3
    /\ weight_calls = 0
    /\ last.op = "a_star"
    /\ last.a = <<0, 0>> /\ last.b = <<2, 2>>
    /\ Len(search.path) = 5
    /\ PathCost(nodes, search.path, 1) = 4 * Unit

\* C15: once the town is constructed, and after every tick, the colour
\* stored at every node is the colour of the phase (signal_step + offset)
\* mod (green + yellow + red): green below green_duration, yellow below
\* green_duration + yellow_duration, red otherwise.  signal_step starts at
\* green + yellow - 1 and grows by 1 with each step(), and every offset is
\* in [0, cycle).
C15_ColourIsPhase ==
    pc = "ready" =>
        /\ signal_step = green_duration + yellow_duration - 1 + ticks
        /\ red_duration = green_duration
        /\ \A c \in DOMAIN nodes :
              /\ nodes[c].signal = ColorAtStep(signal_step, nodes[c].signal_offset)
              /\ 0 <= nodes[c].signal_offset
              /\ nodes[c].signal_offset < green_duration + yellow_duration + red_duration

\* after three ticks, a node with the largest offset of the cycle of five
\* shows yellow while a node with offset 0 shows red
C15_Witness ==
    /\ last.op = "step"
    /\ ticks = 3
    /\ green_duration = 2 /\ yellow_duration = 1
    /\ \E a \in DOMAIN nodes, b \in DOMAIN nodes :
          /\ nodes[a].signal_offset = 4
          /\ nodes[b].signal_offset = 0
          /\ nodes[a].signal # nodes[b].signal

\* C16 as claimed: among the entries of equal f, an entry inserted later is
\* never popped while one inserted earlier is still in the open set.
C16_TiesInInsertionOrder ==
    last.op = "a_star" =>
        \A k \in 1..Len(search.popped) :
            \A i, j \in 1..Len(search.heaps[k]) :
                (i < j /\ search.heaps[k][i][1] = search.heaps[k][j][1]) =>
                    search.popped[k] # search.heaps[k][j]

\* C16 as amended: a_star pops the entry that is least as a tuple
\* (f, (x, y)): among the entries of least f the one whose node has the
\* smaller x and, for equal x, the smaller y, whatever the order of insertion.
C16_TiesInNodeOrder ==
    last.op = "a_star" =>
        \A k \in 1..Len(search.popped) :
            /\ search.popped[k] \in Range(search.heaps[k])
            /\ \A e \in Range(search.heaps[k]) :
                  \/ e = search.popped[k]
                  \/ search.popped[k][1] < e[1]
                  \/ /\ search.popped[k][1] = e[1]
                     /\ \/ search.popped[k][2][1] < e[2][1]
                        \/ /\ search.popped[k][2][1] = e[2][1]
                           /\ search.popped[k][2][2] < e[2][2]

\* on the 2 x 2 grid, from (0, 0) to (1, 1): (1, 0) and (0, 1) are inserted
\* in this order with the same f, and (0, 1) is popped first
C16_Witness ==
    /\ last.op = "a_star"
    /\ ~random_roads
    /\ width = 2 /\ height = 2
    /\ weight_calls = 0
    /\ last.a = <<0, 0>> /\ last.b = <<1, 1>>
    /\ search.heaps[2] = << <<2 * Unit, <<1, 0>>>>, <<2 * Unit, <<0, 1>>>> >>
    /\ search.popped[2] = <<2 * Unit, <<0, 1>>>>

\* C17: after the construction of a town with random roads that has at
\* least two other nodes for each node, every node has at least 2 neighbours
\* and no node is its own neighbour, each node having drawn 2 to 4 distinct
\* nodes other than itself.
C17_RandomDegree ==
    (random_roads /\ pc \in {"signals", "ready"} /\ width * height >= 3) =>
        \A c \in DOMAIN nodes :
            /\ Len(nodes[c].neighbors) >= 2
            /\ ~IsEdge(nodes, c, c)

\* C18: with green_duration >= 1 and any offsets, while step() keeps being
\* called every registered vehicle arrives and is_complete() becomes true; a
\* vehicle with a path of L nodes has arrived once (L - 1) * (green + yellow
\* + red) ticks have passed since its registration.
C18_EveryVehicleArrives ==
    /\ [](pc = "ready" =>
             \A i \in 1..Len(vehicles) :
                ticks - hist.born[i] >=
                    (Len(vehicles[i].path) - 1)
                       * (green_duration + yellow_duration + red_duration)
                  => Arrived(vehicles[i]))
    /\ (pc = "ready" /\ vehicles # <<>>) ~> is_complete(vehicles)

\* with a cycle of three and random offsets, a vehicle with one hop to make
\* arrived at the third tick, the last the bound allows
C18_Witness ==
    /\ last.op = "step"
    /\ randomize_signals
    /\ green_duration = 1 /\ yellow_duration = 1
    /\ ticks = 3
    /\ Len(vehicles) = 1
    /\ hist.born[1] = 0
    /\ Len(vehicles[1].path) = 2
    /\ nodes[vehicles[1].goal].signal_offset = 2
    /\ is_complete(vehicles)

\* C19: with strictly positive weights the loop of a_star ends for every
\* start and goal, though nodes are inserted again and no closed set is
\* kept: either the goal is popped and the path, rebuilt through came_from
\* back to start, is returned, or the open set is empty and None is
\* returned.
C19_SearchTerminates ==
    (last.op = "a_star" /\ AllPositive(nodes)) =>
        /\ search.status \in {"found", "none"}
        /\ search.iter < MaxIter
        /\ search.status = "found" =>
              /\ search.popped[Len(search.popped)][2] = last.b
              /\ search.path[1] = last.a
              /\ search.path[Len(search.path)] = last.b
              /\ Len(search.path) <= Cardinality(DOMAIN nodes)
        /\ search.status = "none" =>
              /\ search.open_set = <<>>
              /\ \A k \in 1..Len(search.popped) : search.popped[k][2] # last.b

\* a search that popped one node twice, at two different f, before it
\* popped the goal
C19_Witness ==
    /\ last.op = "a_star"
    /\ search.status = "found"
    /\ \E k, l \in 1..Len(search.popped) :
          /\ k < l
          /\ search.popped[k][2] = search.popped[l][2]
          /\ search.popped[k][1] > search.popped[l][1]

\* every weight is at least 1.0
AllAtLeastOne(ns) ==
    \A c \in DOMAIN ns : \A i \in 1..Len(ns[c].neighbors) : ns[c].neighbors[i][2] >= Unit

\* the place of a node in CoordSeq(width, height)
Place(c) == c[1] * height + c[2] + 1

\* one round of relaxation towards the goal: for the nodes from the i-th
\* on, the least of the cost known and the cost through a neighbour; the
\* costs are a tuple in the order of CoordSeq
RECURSIVE CostRound(_, _, _)
CostRound(ns, d, i) ==
    IF i > Len(d) THEN <<>>
    ELSE LET n == CoordSeq(width, height)[i]
             via == {d[i]} \cup {ns[n].neighbors[j][2] + d[Place(ns[n].neighbors[j][1])] :
                                   j \in 1..Len(ns[n].neighbors)}
         IN <<CHOOSE v \in via : \A u \in via : v <= u>> \o CostRound(ns, d, i + 1)

RECURSIVE CostRounds(_, _, _)
CostRounds(ns, d, k) ==
    IF k = 0 THEN d ELSE CostRounds(ns, CostRound(ns, d, 1), k - 1)

\* the least cost of a path from every node to goal (Bellman-Ford)
CostsTo(ns, goal) ==
    LET d == CostRounds(ns, [i \in 1..(width * height) |->
                                IF CoordSeq(width, height)[i] = goal THEN 0 ELSE Inf],
                        width * height)
    IN [n \in DOMAIN ns |-> d[Place(n)]]

\* C20: on a grid whose weights are all at least 1.0, also after
\* set_road_weight, the heuristic of every node is at most the least cost
\* of a path from it to the goal, and the path a_star returns costs the
\* least that any path from start to goal costs.
C20_GridPathIsCheapest ==
    (last.op = "a_star" /\ ~random_roads /\ AllAtLeastOne(nodes)) =>
        LET cost == CostsTo(nodes, last.b)
        IN /\ \A n \in DOMAIN nodes : heuristic(n, last.b) <= cost[n]
           /\ search.status = "found"
           /\ PathCost(nodes, search.path, 1) = cost[last.a]

\* on the 3 x 3 grid a road of the straight way was made to weigh 3.0, and
\* a_star returned a way round it, longer in roads than the Manhattan
\* distance and cheaper than the straight way
C20_Witness ==
    /\ last.op = "a_star"
    /\ width = 3 /\ height = 3
    /\ weight_calls = 1
    /\ AllAtLeastOne(nodes)
    /\ search.status = "found"
    /\ Len(search.path) > Manhattan(last.a, last.b) + 1
    /\ PathCost(nodes, search.path, 1) > Manhattan(last.a, last.b) * Unit

====
